---- MODULE Spec2Model ----
(***************************************************************************)
(* Model of src/mutate.py: the mutation-candidate generator                *)
(* (generate_mutation_candidates), the applier (apply_mutation) and the    *)
(* diff renderer (unified_diff_u3).                                        *)
(*                                                                         *)
(* A Python str is a sequence of one-character strings; a Python list is a *)
(* sequence.  Column offsets and list indexes are 0-based as in the code;  *)
(* At(s, i) reads the element at 0-based index i.                          *)
(***************************************************************************)
EXTENDS Integers, Sequences, FiniteSets

VARIABLES
    pristine,   \* the line sequence as read from the file (never written)
    lines,      \* the caller's list object handed to the functions
    cands,      \* generate_mutation_candidates(lines)
    mu,         \* the Mutation handed to apply_mutation
    mutated,    \* value returned by apply_mutation (<<>> before / on error)
    err,        \* exception raised by the last call: "none", "ValueError", "IndexError"
    second,     \* value returned by apply_mutation(mutated, mu)
    rescan,     \* generate_mutation_candidates(mutated)
    diff,       \* text returned by unified_diff_u3
    relpath,    \* the path label given to unified_diff_u3
    pc          \* position of the driver

vars == <<pristine, lines, cands, mu, mutated, err, second, rescan, diff, relpath, pc>>

\* ------------------------------------------------------------------ bounds

MaxPieces == 2
MaxLines == 2
LongLen == 9

\* ------------------------------------------------------------- str helpers

At(s, i) == s[i + 1]

Min(a, b) == IF a < b THEN a ELSE b
Max(a, b) == IF a > b THEN a ELSE b

\* Python s[a:b] for any integers a, b (negative offsets count from the end,
\* out-of-range offsets are clamped).
PySlice(s, a, b) ==
    LET n  == Len(s)
        lo == IF a < 0 THEN Max(n + a, 0) ELSE Min(a, n)
        hi == IF b < 0 THEN Max(n + b, 0) ELSE Min(b, n)
    IN  IF lo >= hi THEN <<>> ELSE SubSeq(s, lo + 1, hi)

\* Python s[:a] and s[a:]
PyPrefix(s, a) == PySlice(s, 0, a)
PySuffix(s, a) ==
    LET n  == Len(s)
        lo == IF a < 0 THEN Max(n + a, 0) ELSE Min(a, n)
    IN  IF lo >= n THEN <<>> ELSE SubSeq(s, lo + 1, n)

\* ------------------------------------------------------- operator tables

\* ror_map with the replacement of " <= " mistyped as " > "
ror_map_typo == <<
    << <<" ", "=", "=", " ">>, <<" ", "!", "=", " ">> >>,
    << <<" ", "!", "=", " ">>, <<" ", "=", "=", " ">> >>,
    << <<" ", "<", "=", " ">>, <<" ", ">", " ">> >>,
    << <<" ", "<", " ">>,      <<" ", "<", "=", " ">> >>,
    << <<" ", ">", "=", " ">>, <<" ", ">", " ">> >>,
    << <<" ", ">", " ">>,      <<" ", ">", "=", " ">> >> >>

\* dicts iterate in insertion order: each table is a sequence of
\* <<before, after>> pairs in the order of the dict literal.
ror_map == <<
    << <<" ", "=", "=", " ">>, <<" ", "!", "=", " ">> >>,
    << <<" ", "!", "=", " ">>, <<" ", "=", "=", " ">> >>,
    << <<" ", "<", "=", " ">>, <<" ", "<", " ">> >>,
    << <<" ", "<", " ">>,      <<" ", "<", "=", " ">> >>,
    << <<" ", ">", "=", " ">>, <<" ", ">", " ">> >>,
    << <<" ", ">", " ">>,      <<" ", ">", "=", " ">> >> >>

lcr_map == <<
    << <<" ", "a", "n", "d", " ">>, <<" ", "o", "r", " ">> >>,
    << <<" ", "o", "r", " ">>,      <<" ", "a", "n", "d", " ">> >> >>

nmc_map == <<
    << <<" ", "i", "s", " ", "N", "o", "n", "e">>,
       <<" ", "i", "s", " ", "n", "o", "t", " ", "N", "o", "n", "e">> >>,
    << <<" ", "i", "s", " ", "n", "o", "t", " ", "N", "o", "n", "e">>,
       <<" ", "i", "s", " ", "N", "o", "n", "e">> >> >>

aor_map == <<
    << <<" ", "-", " ", "1">>, <<" ", "+", " ", "1">> >>,
    << <<" ", "+", " ", "1">>, <<" ", "-", " ", "1">> >> >>

\* the four literal tables in the order the loop body visits them
Tables == << <<"ROR", ror_map>>, <<"LCR", lcr_map>>,
             <<"NMC", nmc_map>>, <<"AOR", aor_map>> >>

\* [\w.] of int_pat: \w is a letter, a digit or the underscore
WordChars ==
    {"a","b","c","d","e","f","g","h","i","j","k","l","m","n","o","p","q","r",
     "s","t","u","v","w","x","y","z","A","B","C","D","E","F","G","H","I","J",
     "K","L","M","N","O","P","Q","R","S","T","U","V","W","X","Y","Z",
     "0","1","2","3","4","5","6","7","8","9","_"}
WordOrDot == WordChars \cup {"."}

Mutation(op, ln, s, e, b, a) ==
    [operator |-> op, line_no |-> ln, col_start |-> s, col_end |-> e,
     before |-> b, after |-> a]

\* -------------------------------------------------- _find_all_substrings

\* line[i : i + len(before)] == before
MatchAt(line, before, i) ==
    /\ i + Len(before) <= Len(line)
    /\ \A k \in 1..Len(before) : line[i + k] = before[k]

\* str.find(before, start): lowest index >= start of an occurrence, or -1
StrFind(line, before, start) ==
    LET hits == {i \in start..(Len(line) - Len(before)) : MatchAt(line, before, i)}
    IN  IF hits = {} THEN -1
        ELSE CHOOSE i \in hits : \A j \in hits : i <= j

RECURSIVE FindFrom(_, _, _)
FindFrom(line, before, start) ==
    LET idx == StrFind(line, before, start)
    IN  IF idx = -1 THEN <<>>
        ELSE << <<idx, idx + Len(before)>> >> \o FindFrom(line, before, idx + 1)

\* the scan resuming at the end of each match instead of one character on
RECURSIVE FindFromEnd(_, _, _)
FindFromEnd(line, before, start) ==
    LET idx == StrFind(line, before, start)
    IN  IF idx = -1 THEN <<>>
        ELSE << <<idx, idx + Len(before)>> >>
                 \o FindFromEnd(line, before, idx + Len(before))

find_all_substrings_nonoverlapping(line, before) == FindFromEnd(line, before, 0)

\* the scan yielding an inclusive end offset
find_all_substrings_inclusive(line, before) ==
    LET occ == FindFrom(line, before, 0)
    IN  [k \in 1..Len(occ) |-> <<occ[k][1], occ[k][2] - 1>>]

\* the (start, end) pairs the generator yields, in order
find_all_substrings(line, before) == FindFrom(line, before, 0)

\* ------------------------------------------------------------- int_pat

\* (?![\w.]) at offset q: end of line, or a character outside [\w.]
LookaheadOk(line, q) == q >= Len(line) \/ At(line, q) \notin WordOrDot

\* (?<![\w.]) at offset p: start of line, or a character outside [\w.]
LookbehindOk(line, p) == p = 0 \/ At(line, p - 1) \notin WordOrDot

\* the pattern without its lookbehind: (-?1|0|1)(?![\w.])
IntPatMatchEnd_nolookbehind(line, p) ==
    IF p >= Len(line) THEN -1
    ELSE IF /\ At(line, p) = "-"
            /\ p + 1 < Len(line)
            /\ At(line, p + 1) = "1"
            /\ LookaheadOk(line, p + 2) THEN p + 2
    ELSE IF At(line, p) = "1" /\ LookaheadOk(line, p + 1) THEN p + 1
    ELSE IF At(line, p) = "0" /\ LookaheadOk(line, p + 1) THEN p + 1
    ELSE -1

\* End offset of the match of (?<![\w.])(-?1|0|1)(?![\w.]) that starts at
\* offset p, or -1.  Alternatives are tried left to right, -? greedily.
IntPatMatchEnd(line, p) ==
    IF p >= Len(line) \/ ~LookbehindOk(line, p) THEN -1
    ELSE IF /\ At(line, p) = "-"
            /\ p + 1 < Len(line)
            /\ At(line, p + 1) = "1"
            /\ LookaheadOk(line, p + 2) THEN p + 2
    ELSE IF At(line, p) = "1" /\ LookaheadOk(line, p + 1) THEN p + 1
    ELSE IF At(line, p) = "0" /\ LookaheadOk(line, p + 1) THEN p + 1
    ELSE -1

\* int_pat.finditer(line): leftmost, non-overlapping matches; after a match
\* the scan resumes at its end, after a failure one character further on.
RECURSIVE FindIter(_, _)
FindIter(line, p) ==
    IF p >= Len(line) THEN <<>>
    ELSE LET e == IntPatMatchEnd(line, p)
         IN  IF e = -1 THEN FindIter(line, p + 1)
             ELSE << <<p, e>> >> \o FindIter(line, e)

int_pat_finditer(line) == FindIter(line, 0)

\* the if/elif chain on tok; <<>> stands for `continue`
CrpReplacement(tok) ==
    IF tok = <<"0">> THEN << <<"1">> >>
    ELSE IF tok = <<"1">> THEN << <<"0">> >>
    ELSE IF tok = <<"-", "1">> THEN << <<"0">> >>
    ELSE <<>>

\* ------------------------------------------ generate_mutation_candidates

RECURSIVE Concat(_)
Concat(ss) ==
    IF ss = <<>> THEN <<>> ELSE Head(ss) \o Concat(Tail(ss))

\* for s, e in _find_all_substrings(line, before): muts.append(...)
EntryMuts(op, i, line, entry) ==
    LET occ == find_all_substrings(line, entry[1])
    IN  [k \in 1..Len(occ) |->
            Mutation(op, i, occ[k][1], occ[k][2], entry[1], entry[2])]

\* for before, after in <table>.items(): ...
TableMuts(op, map, i, line) ==
    Concat([k \in 1..Len(map) |-> EntryMuts(op, i, line, map[k])])

\* for m in int_pat.finditer(line): ...
CrpMuts(i, line) ==
    LET ms == int_pat_finditer(line)
    IN  Concat([k \in 1..Len(ms) |->
            LET tok == PySlice(line, ms[k][1], ms[k][2])
                rep == CrpReplacement(tok)
            IN  IF rep = <<>> THEN <<>>
                ELSE << Mutation("CRP", i, ms[k][1], ms[k][2], tok, rep[1]) >>])

\* body of `for i, line in enumerate(lines, start=1)`
LineMuts(i, line) ==
    Concat([t \in 1..Len(Tables) |-> TableMuts(Tables[t][1], Tables[t][2], i, line)])
        \o CrpMuts(i, line)

\* uniq = {}; uniq[key] = mu; list(uniq.values()): one entry per key, at the
\* position of the key's first insertion
RECURSIVE Uniq(_)
Uniq(ms) ==
    IF ms = <<>> THEN <<>>
    ELSE LET n     == Len(ms)
             front == Uniq(SubSeq(ms, 1, n - 1))
         IN  IF \E j \in 1..Len(front) : front[j] = ms[n]
             THEN front ELSE Append(front, ms[n])

generate_mutation_candidates(ls) ==
    Uniq(Concat([i \in 1..Len(ls) |-> LineMuts(i, ls[i])]))

\* --------------------------------------------------------- apply_mutation

NoResult == <<>>

\* list indexing new_lines[idx]: a negative idx counts from the end
PyIndexOk(ls, idx) == -Len(ls) <= idx /\ idx < Len(ls)
PyIndex(ls, idx) == IF idx < 0 THEN Len(ls) + idx + 1 ELSE idx + 1

\* apply_mutation with the index taken as line_no instead of line_no - 1
apply_mutation_offbyone(ls, m) ==
    LET idx == m.line_no
    IN  IF ~PyIndexOk(ls, idx)
        THEN [err |-> "IndexError", ret |-> NoResult, arg |-> ls]
        ELSE LET pos  == PyIndex(ls, idx)
                 line == ls[pos]
             IN  IF PySlice(line, m.col_start, m.col_end) # m.before
                 THEN [err |-> "ValueError", ret |-> NoResult, arg |-> ls]
                 ELSE [err |-> "none",
                       ret |-> [ls EXCEPT ![pos] =
                                   PyPrefix(line, m.col_start) \o m.after
                                       \o PySuffix(line, m.col_end)],
                       arg |-> ls]

\* apply_mutation whose guard only asks whether `before` occurs in the line
apply_mutation_lenient(ls, m) ==
    LET idx == m.line_no - 1
    IN  IF ~PyIndexOk(ls, idx)
        THEN [err |-> "IndexError", ret |-> NoResult, arg |-> ls]
        ELSE LET pos  == PyIndex(ls, idx)
                 line == ls[pos]
             IN  IF StrFind(line, m.before, 0) = -1
                 THEN [err |-> "ValueError", ret |-> NoResult, arg |-> ls]
                 ELSE [err |-> "none",
                       ret |-> [ls EXCEPT ![pos] =
                                   PyPrefix(line, m.col_start) \o m.after
                                       \o PySuffix(line, m.col_end)],
                       arg |-> ls]

\* apply_mutation without the guard on the recorded text
apply_mutation_unchecked(ls, m) ==
    LET idx == m.line_no - 1
    IN  IF ~PyIndexOk(ls, idx)
        THEN [err |-> "IndexError", ret |-> NoResult, arg |-> ls]
        ELSE LET pos  == PyIndex(ls, idx)
                 line == ls[pos]
             IN  [err |-> "none",
                  ret |-> [ls EXCEPT ![pos] =
                              PyPrefix(line, m.col_start) \o m.after
                                  \o PySuffix(line, m.col_end)],
                  arg |-> ls]

\* Outcome of apply_mutation(ls, m): the exception raised (or "none"), the
\* value returned, and the content of the caller's list afterwards.
apply_mutation(ls, m) ==
    LET idx == m.line_no - 1
    IN  IF ~PyIndexOk(ls, idx)
        THEN [err |-> "IndexError", ret |-> NoResult, arg |-> ls]
        ELSE LET pos  == PyIndex(ls, idx)
                 line == ls[pos]
             IN  IF PySlice(line, m.col_start, m.col_end) # m.before
                 THEN [err |-> "ValueError", ret |-> NoResult, arg |-> ls]
                 ELSE [err |-> "none",
                       ret |-> [ls EXCEPT ![pos] =
                                   PyPrefix(line, m.col_start) \o m.after
                                       \o PySuffix(line, m.col_end)],
                       arg |-> ls]

\* ------------------------------------- difflib.unified_diff(..., n=3)
\* The renderer hands both sequences to difflib; the operators below follow
\* SequenceMatcher and unified_diff for sequences shorter than 200 lines
\* (no automatic junk heuristic) with no junk predicate.

DiffContext == 3

\* SequenceMatcher.find_longest_match: the longest block a[i:i+k] == b[j:j+k]
\* inside a[alo:ahi], b[blo:bhi]; of the longest, the one starting earliest
\* in a, then earliest in b; <<alo, blo, 0>> when nothing matches.
find_longest_match(a, b, alo, ahi, blo, bhi) ==
    LET blocks == {x \in (alo..(ahi - 1)) \X (blo..(bhi - 1)) \X (1..(ahi - alo)) :
                      /\ x[1] + x[3] <= ahi
                      /\ x[2] + x[3] <= bhi
                      /\ \A t \in 1..x[3] : a[x[1] + t] = b[x[2] + t]}
        Better(x, y) == \/ x[3] > y[3]
                        \/ x[3] = y[3] /\ x[1] < y[1]
                        \/ x[3] = y[3] /\ x[1] = y[1] /\ x[2] <= y[2]
    IN  IF blocks = {} THEN <<alo, blo, 0>>
        ELSE CHOOSE x \in blocks : \A y \in blocks : Better(x, y)

\* the recursion of get_matching_blocks, in sorted order
RECURSIVE MatchingBlocksIn(_, _, _, _, _, _)
MatchingBlocksIn(a, b, alo, ahi, blo, bhi) ==
    LET x == find_longest_match(a, b, alo, ahi, blo, bhi)
        i == x[1]
        j == x[2]
        k == x[3]
    IN  IF k = 0 THEN <<>>
        ELSE (IF alo < i /\ blo < j
              THEN MatchingBlocksIn(a, b, alo, i, blo, j) ELSE <<>>)
             \o <<x>>
             \o (IF i + k < ahi /\ j + k < bhi
                 THEN MatchingBlocksIn(a, b, i + k, ahi, j + k, bhi) ELSE <<>>)

\* adjacent blocks are collapsed into one
RECURSIVE CollapseBlocks(_)
CollapseBlocks(bs) ==
    IF Len(bs) < 2 THEN bs
    ELSE LET x == bs[1]
             y == bs[2]
         IN  IF x[1] + x[3] = y[1] /\ x[2] + x[3] = y[2]
             THEN CollapseBlocks(<< <<x[1], x[2], x[3] + y[3]>> >>
                                     \o SubSeq(bs, 3, Len(bs)))
             ELSE <<x>> \o CollapseBlocks(Tail(bs))

\* get_matching_blocks: the collapsed blocks and the sentinel (la, lb, 0)
get_matching_blocks(a, b) ==
    CollapseBlocks(MatchingBlocksIn(a, b, 0, Len(a), 0, Len(b)))
        \o << <<Len(a), Len(b), 0>> >>

Opcode(tag, i1, i2, j1, j2) ==
    [tag |-> tag, i1 |-> i1, i2 |-> i2, j1 |-> j1, j2 |-> j2]

\* get_opcodes: walk the matching blocks from (i, j)
RECURSIVE OpcodesFrom(_, _, _)
OpcodesFrom(bs, i, j) ==
    IF bs = <<>> THEN <<>>
    ELSE LET ai   == bs[1][1]
             bj   == bs[1][2]
             size == bs[1][3]
             gap  == IF i < ai /\ j < bj THEN <<Opcode("replace", i, ai, j, bj)>>
                     ELSE IF i < ai THEN <<Opcode("delete", i, ai, j, bj)>>
                     ELSE IF j < bj THEN <<Opcode("insert", i, ai, j, bj)>>
                     ELSE <<>>
             eq   == IF size > 0
                     THEN <<Opcode("equal", ai, ai + size, bj, bj + size)>>
                     ELSE <<>>
         IN  gap \o eq \o OpcodesFrom(Tail(bs), ai + size, bj + size)

get_opcodes(a, b) == OpcodesFrom(get_matching_blocks(a, b), 0, 0)

\* tag, max(i1, i2-n), i2, max(j1, j2-n), j2
KeepTail(c, n) ==
    Opcode(c.tag, Max(c.i1, c.i2 - n), c.i2, Max(c.j1, c.j2 - n), c.j2)

\* tag, i1, min(i2, i1+n), j1, min(j2, j1+n)
KeepHead(c, n) ==
    Opcode(c.tag, c.i1, Min(c.i2, c.i1 + n), c.j1, Min(c.j2, c.j1 + n))

\* the loop of get_grouped_opcodes: `group` is the group being built; a
\* long run of equal lines ends it and starts the next one
RECURSIVE GroupFrom(_, _, _)
GroupFrom(codes, group, n) ==
    IF codes = <<>>
    THEN IF group # <<>> /\ ~(Len(group) = 1 /\ group[1].tag = "equal")
         THEN <<group>> ELSE <<>>
    ELSE IF codes[1].tag = "equal" /\ codes[1].i2 - codes[1].i1 > n + n
         THEN << Append(group, KeepHead(codes[1], n)) >>
              \o GroupFrom(Tail(codes), << KeepTail(codes[1], n) >>, n)
         ELSE GroupFrom(Tail(codes), Append(group, codes[1]), n)

\* if not codes: codes = [("equal", 0, 1, 0, 1)]
OrEqualCode(codes) ==
    IF codes = <<>> THEN <<Opcode("equal", 0, 1, 0, 1)>> ELSE codes

\* a leading group of equal lines keeps its last n lines
FixLeading(codes, n) ==
    IF codes[1].tag = "equal"
    THEN [codes EXCEPT ![1] = KeepTail(@, n)] ELSE codes

\* a trailing group of equal lines keeps its first n lines
FixTrailing(codes, n) ==
    IF codes[Len(codes)].tag = "equal"
    THEN [codes EXCEPT ![Len(codes)] = KeepHead(@, n)] ELSE codes

get_grouped_opcodes(a, b, n) ==
    GroupFrom(FixTrailing(FixLeading(OrEqualCode(get_opcodes(a, b)), n), n), <<>>, n)

\* str(n) for n >= 0
Digit(d) == <<"0", "1", "2", "3", "4", "5", "6", "7", "8", "9">>[d + 1]
RECURSIVE FormatInt(_)
FormatInt(n) ==
    IF n < 10 THEN <<Digit(n)>> ELSE FormatInt(n \div 10) \o <<Digit(n % 10)>>

\* difflib._format_range_unified(start, stop)
format_range_unified(start, stop) ==
    LET beginning == start + 1
        length    == stop - start
    IN  IF length = 1 THEN FormatInt(beginning)
        ELSE FormatInt(IF length = 0 THEN beginning - 1 ELSE beginning)
                 \o <<",">> \o FormatInt(length)

\* the lines one opcode of a group yields
OpcodeLines(a, b, c) ==
    LET olds(pre) == [k \in 1..(c.i2 - c.i1) |-> <<pre>> \o a[c.i1 + k]]
        news      == [k \in 1..(c.j2 - c.j1) |-> <<"+">> \o b[c.j1 + k]]
    IN  IF c.tag = "equal" THEN olds(" ")
        ELSE (IF c.tag \in {"replace", "delete"} THEN olds("-") ELSE <<>>)
             \o (IF c.tag \in {"replace", "insert"} THEN news ELSE <<>>)

\* '@@ -{} +{} @@{}'.format(file1_range, file2_range, lineterm)
HunkHeader(r1, r2, lineterm) ==
    <<"@", "@", " ", "-">> \o r1 \o <<" ", "+">> \o r2
        \o <<" ", "@", "@">> \o lineterm

GroupLines(a, b, group, lineterm) ==
    LET first == group[1]
        last  == group[Len(group)]
    IN  << HunkHeader(format_range_unified(first.i1, last.i2),
                      format_range_unified(first.j1, last.j2), lineterm) >>
        \o Concat([k \in 1..Len(group) |-> OpcodeLines(a, b, group[k])])

\* the strings difflib.unified_diff yields (no file dates are given)
difflib_unified_diff(a, b, fromfile, tofile, lineterm, n) ==
    LET groups == get_grouped_opcodes(a, b, n)
    IN  IF groups = <<>> THEN <<>>
        ELSE << <<"-", "-", "-", " ">> \o fromfile \o lineterm,
                <<"+", "+", "+", " ">> \o tofile \o lineterm >>
             \o Concat([g \in 1..Len(groups) |->
                           GroupLines(a, b, groups[g], lineterm)])

\* sep.join(items)
RECURSIVE Join(_, _)
Join(sep, items) ==
    IF items = <<>> THEN <<>>
    ELSE IF Len(items) = 1 THEN items[1]
    ELSE items[1] \o sep \o Join(sep, Tail(items))

\* -------------------------------------------------------- unified_diff_u3

\* the renderer with the file labels passed without their a/ and b/ prefixes
unified_diff_u3_bare_labels(original, mutatedLines, path) ==
    Join(<<"\n">>,
         difflib_unified_diff(original, mutatedLines, path, path,
                              <<>>, DiffContext))
        \o <<"\n">>

unified_diff_u3(original, mutatedLines, path) ==
    Join(<<"\n">>,
         difflib_unified_diff(original, mutatedLines,
                              <<"a", "/">> \o path, <<"b", "/">> \o path,
                              <<>>, DiffContext))
        \o <<"\n">>

\* ------------------------------------------------------------------ inputs

\* every `before` literal of the four tables
TableLiterals ==
    UNION {{Tables[t][2][k][1] : k \in 1..Len(Tables[t][2])} : t \in 1..Len(Tables)}

\* fragments a line is assembled from: the table literals, the numeral
\* tokens, a word character, a dot, a minus sign and the tail of " == "
Pieces ==
    TableLiterals \cup
    {<<"a">>, <<"0">>, <<"1">>, <<"-", "1">>, <<".">>, <<"-">>, <<"=", "=", " ">>}

RECURSIVE PieceSeqs(_)
PieceSeqs(n) ==
    IF n = 0 THEN {<<>>}
    ELSE LET shorter == PieceSeqs(n - 1)
         IN  shorter \cup {s \o q : s \in shorter, q \in Pieces}

\* line contents without terminator
Bodies == PieceSeqs(MaxPieces)

\* whole lines that files of several lines are made of
SampleLines ==
    {<<"0", "\n">>,
     <<"i", "f", " ", "x", " ", "=", "=", " ", "1", ":", "\n">>,
     <<"i", "f", " ", "x", " ", "!", "=", " ", "1", ":", "\n">>,
     <<"a", " ", "=", "=", " ", "b", " ", "a", "n", "d", " ",
       "c", " ", "=", "=", " ", "d", "\n">>}

RECURSIVE SampleFiles(_)
SampleFiles(n) ==
    IF n = 0 THEN {<<>>}
    ELSE LET shorter == SampleFiles(n - 1)
         IN  shorter \cup {Append(f, l) : f \in shorter, l \in SampleLines}

\* files long enough for the renderer to trim the context around a change:
\* LongLen lines, one of them a statement or a "1", the others "0"
LongFiles ==
    {[k \in 1..LongLen |-> IF k = p THEN l ELSE <<"0", "\n">>] :
        p \in {1, (LongLen + 1) \div 2, LongLen},
        l \in {<<"1", "\n">>,
               <<"i", "f", " ", "x", " ", "=", "=", " ", "1", ":", "\n">>}}

\* text.splitlines(keepends=True): every line keeps its terminator; only
\* the last line of a file may lack one.  The files are the one-line files
\* of every assembled line, terminated or not, every sequence of at most
\* MaxLines sample lines (the empty file among them), and the long files.
Files ==
    {<<body \o <<"\n">> >> : body \in Bodies}
        \cup {<<body>> : body \in Bodies \ {<<>>}}
        \cup SampleFiles(MaxLines)
        \cup LongFiles

\* path labels handed to the renderer
Paths == {<<"m", ".", "p", "y">>, <<"d", "/", "m", ".", "p", "y">>}

NoMutation == Mutation("", 0, 0, 0, <<>>, <<>>)

\* a Mutation reused against the wrong place: line_no and both columns moved
Moved(m, dl, dc) ==
    [m EXCEPT !.line_no = @ + dl, !.col_start = @ + dc, !.col_end = @ + dc]

\* <<line drift, column drift>> of a reused Mutation
Drifts == {<<-2, 0>>, <<-1, 0>>, <<1, 0>>, <<0, -1>>, <<0, 1>>}

\* ------------------------------------------------------------ the driver

Init ==
    /\ pristine \in Files
    /\ lines = pristine
    /\ cands = <<>>
    /\ mu = NoMutation
    /\ mutated = NoResult
    /\ err = "none"
    /\ second = NoResult
    /\ rescan = <<>>
    /\ diff = <<>>
    /\ relpath = <<>>
    /\ pc = "start"

\* cands = generate_mutation_candidates(lines)
Generate ==
    /\ pc = "start"
    /\ cands' = generate_mutation_candidates(lines)
    /\ pc' = "generated"
    /\ UNCHANGED <<pristine, lines, mu, mutated, err, second, rescan, diff, relpath>>

\* mutated = apply_mutation(lines, mu) for a candidate mu of the list
ApplyCandidate ==
    /\ pc = "generated"
    /\ \E k \in 1..Len(cands) :
          LET r == apply_mutation(lines, cands[k])
          IN  /\ mu' = cands[k]
              /\ lines' = r.arg
              /\ mutated' = r.ret
              /\ err' = r.err
    /\ pc' = "applied"
    /\ UNCHANGED <<pristine, cands, second, rescan, diff, relpath>>

\* apply_mutation(lines, mu) for a Mutation that was not generated from
\* `lines`: a candidate whose line number or columns have drifted
ApplyStale ==
    /\ pc = "generated"
    /\ \E k \in 1..Len(cands), d \in Drifts :
          LET m == Moved(cands[k], d[1], d[2])
              r == apply_mutation(lines, m)
          IN  /\ mu' = m
              /\ lines' = r.arg
              /\ mutated' = r.ret
              /\ err' = r.err
    /\ pc' = "misapplied"
    /\ UNCHANGED <<pristine, cands, second, rescan, diff, relpath>>

\* apply_mutation(mutated, mu): the same Mutation against its own output
Reapply ==
    /\ pc = "applied"
    /\ err = "none"
    /\ LET r == apply_mutation(mutated, mu)
       IN  /\ mutated' = r.arg
           /\ second' = r.ret
           /\ err' = r.err
    /\ pc' = "reapplied"
    /\ UNCHANGED <<pristine, lines, cands, mu, rescan, diff, relpath>>

\* generate_mutation_candidates(mutated)
Rescan ==
    /\ pc = "applied"
    /\ err = "none"
    /\ rescan' = generate_mutation_candidates(mutated)
    /\ pc' = "rescanned"
    /\ UNCHANGED <<pristine, lines, cands, mu, mutated, err, second, diff, relpath>>

\* d = unified_diff_u3(lines, mutated, relpath)
Diff ==
    /\ pc = "applied"
    /\ err = "none"
    /\ \E path \in Paths :
          /\ relpath' = path
          /\ diff' = unified_diff_u3(lines, mutated, path)
    /\ pc' = "diffed"
    /\ UNCHANGED <<pristine, lines, cands, mu, mutated, err, second, rescan>>

\* generate, apply one candidate, then render / re-scan / re-apply
Next ==
    \/ Generate
    \/ ApplyCandidate
    \/ Reapply
    \/ Rescan
    \/ Diff

Spec == Init /\ [][Next]_vars

\* generate, then apply a Mutation that has drifted from where it was found
NextMisuse ==
    \/ Generate
    \/ ApplyStale

SpecMisuse == Init /\ [][NextMisuse]_vars

\* ------------------------------------------------------------------ claims

OperatorNames == {"ROR", "LCR", "NMC", "AOR", "CRP"}

\* C1: applying a generated Mutation succeeds and returns a sequence of the
\* same length as the input that differs from it at exactly one position,
\* the 1-indexed line_no of the Mutation; every other line is equal.
C1_OneLineChanged ==
    pc = "applied" =>
        /\ err = "none"
        /\ Len(mutated) = Len(pristine)
        /\ {i \in 1..Len(pristine) : mutated[i] # pristine[i]} = {mu.line_no}

C1_Witness ==
    /\ pc = "applied"
    /\ Len(pristine) = 2
    /\ mu.line_no = 2
    /\ mu.operator = "ROR"
    /\ mutated[1] = pristine[1]
    /\ mutated[2] # pristine[2]

\* C2: a Mutation with 1 <= line_no <= len(lines) whose recorded text is not
\* at its span, lines[line_no-1][col_start:col_end] != before, makes
\* apply_mutation raise ValueError, return nothing and leave every element
\* of the caller's list as it was.
C2_StaleRejected ==
    (/\ pc = "misapplied"
     /\ mu.line_no \in 1..Len(pristine)
     /\ PySlice(pristine[mu.line_no], mu.col_start, mu.col_end) # mu.before)
    => /\ err = "ValueError"
       /\ mutated = NoResult
       /\ lines = pristine

C2_Witness ==
    /\ pc = "misapplied"
    /\ mu.line_no \in 1..Len(pristine)
    /\ PySlice(pristine[mu.line_no], mu.col_start, mu.col_end) # mu.before
    /\ \E s \in 0..(Len(pristine[mu.line_no]) - Len(mu.before)) :
          SubSeq(pristine[mu.line_no], s + 1, s + Len(mu.before)) = mu.before
    /\ err = "ValueError"

\* C3: every generated Mutation has 1 <= line_no <= len(lines),
\* 0 <= col_start <= col_end <= len(line), the text of the line at
\* [col_start, col_end) equal to before, col_end - col_start = len(before),
\* and one of the five operators.
C3_CandidateSpans ==
    pc = "generated" =>
        \A k \in 1..Len(cands) :
            LET m == cands[k]
            IN  /\ m.operator \in OperatorNames
                /\ m.line_no \in 1..Len(lines)
                /\ 0 <= m.col_start
                /\ m.col_start <= m.col_end
                /\ m.col_end <= Len(lines[m.line_no])
                /\ SubSeq(lines[m.line_no], m.col_start + 1, m.col_end) = m.before
                /\ m.col_end - m.col_start = Len(m.before)

C3_Witness ==
    /\ pc = "generated"
    /\ \E k \in 1..Len(cands) : cands[k].operator = "NMC" /\ cands[k].col_start > 0
    /\ \E k \in 1..Len(cands) : cands[k].operator = "CRP"

\* the Mutations among xs that mirror m: same operator and line, before and
\* after exchanged, starting at column cs and ending at column ce
Mirrors(xs, m, cs, ce) ==
    {k \in 1..Len(xs) :
        /\ xs[k].operator = m.operator
        /\ xs[k].line_no = m.line_no
        /\ xs[k].before = m.after
        /\ xs[k].after = m.before
        /\ xs[k].col_start = cs
        /\ xs[k].col_end = ce}

\* C4 as stated: after a ROR, LCR or NMC Mutation m is applied, re-scanning
\* the result yields a Mutation with the same operator and line, before and
\* after exchanged, at the same column range [m.col_start, m.col_end).
C4_MirrorAtSameRange ==
    (pc = "rescanned" /\ mu.operator \in {"ROR", "LCR", "NMC"}) =>
        Mirrors(rescan, mu, mu.col_start, mu.col_end) # {}

\* C4 amended: after a ROR, LCR or NMC Mutation m is applied, re-scanning
\* the result yields a Mutation with the same operator and line, before and
\* after exchanged, starting at m.col_start and ending at
\* m.col_start + len(m.after), the span the replacement text occupies.
C4_MirrorAtReplacedSpan ==
    (pc = "rescanned" /\ mu.operator \in {"ROR", "LCR", "NMC"}) =>
        Mirrors(rescan, mu, mu.col_start, mu.col_start + Len(mu.after)) # {}

C4_Witness ==
    /\ pc = "rescanned"
    /\ mu.operator = "NMC"
    /\ Len(mu.after) > Len(mu.before)
    /\ mu.col_start > 0
    /\ Mirrors(rescan, mu, mu.col_start, mu.col_start + Len(mu.after)) # {}

NumeralTokens == {<<"-", "1">>, <<"0">>, <<"1">>}

\* tok stands at 0-based offset s of line, the character before it (if any)
\* and the character after it (if any) being neither a word character nor "."
TokenIsolated(line, s, tok) ==
    /\ s >= 0
    /\ s + Len(tok) <= Len(line)
    /\ SubSeq(line, s + 1, s + Len(tok)) = tok
    /\ (s = 0 \/ line[s] \notin WordOrDot)
    /\ (s + Len(tok) = Len(line) \/ line[s + Len(tok) + 1] \notin WordOrDot)

IsolatedTokens(ls) ==
    {x \in (1..Len(ls)) \X (0..Max(0, Len(Concat(ls)))) \X NumeralTokens :
        TokenIsolated(ls[x[1]], x[2], x[3])}

\* the "1" that is the second character of a token-isolated "-1"
TailOfMinusOne(ls) ==
    {x \in IsolatedTokens(ls) :
        x[3] = <<"1">> /\ TokenIsolated(ls[x[1]], x[2] - 1, <<"-", "1">>)}

CrpIndexes == {k \in 1..Len(cands) : cands[k].operator = "CRP"}

\* every CRP candidate spans its token and carries the fixed replacement
\* 0 -> 1, 1 -> 0, -1 -> 0, and no CRP candidate is listed twice
CrpWellFormed ==
    /\ \A k \in CrpIndexes :
          /\ cands[k].col_end = cands[k].col_start + Len(cands[k].before)
          /\ cands[k].after = (IF cands[k].before = <<"0">> THEN <<"1">> ELSE <<"0">>)
    /\ \A j, k \in CrpIndexes : cands[j] = cands[k] => j = k

CrpFound ==
    {<<cands[k].line_no, cands[k].col_start, cands[k].before>> : k \in CrpIndexes}

\* C5 as stated: the CRP candidates are exactly the token-isolated
\* occurrences of "-1", "0" and "1", each with the fixed replacement.
C5_CrpExactlyIsolated ==
    pc = "generated" =>
        /\ CrpWellFormed
        /\ CrpFound = IsolatedTokens(lines)

\* C5 amended: the CRP candidates are exactly the token-isolated occurrences
\* of "-1", "0" and "1", each with the fixed replacement, except that the "1"
\* inside a token-isolated "-1" yields no candidate of its own (the "-1"
\* candidate covers it).
C5_CrpIsolatedButMinusOneTail ==
    pc = "generated" =>
        /\ CrpWellFormed
        /\ CrpFound = IsolatedTokens(lines) \ TailOfMinusOne(lines)

C5_Witness ==
    /\ pc = "generated"
    /\ TailOfMinusOne(lines) # {}
    /\ \E k \in CrpIndexes : cands[k].before = <<"-", "1">> /\ cands[k].col_start > 0

\* every occurrence of a table literal in the lines, as the Mutation it yields
LiteralOccurrences(ls) ==
    UNION {UNION {UNION {
        {Mutation(Tables[t][1], i, s, s + Len(Tables[t][2][k][1]),
                  Tables[t][2][k][1], Tables[t][2][k][2]) :
            s \in {s \in 0..(Len(ls[i]) - Len(Tables[t][2][k][1])) :
                      SubSeq(ls[i], s + 1, s + Len(Tables[t][2][k][1]))
                          = Tables[t][2][k][1]}}
        : i \in 1..Len(ls)} : k \in 1..Len(Tables[t][2])} : t \in 1..Len(Tables)}

LiteralIndexes == {k \in 1..Len(cands) : cands[k].operator # "CRP"}

ScenarioLine ==
    <<"a", " ", "=", "=", " ", "b", " ", "a", "n", "d", " ",
      "c", " ", "=", "=", " ", "d", "\n">>

\* C8: for every line, table entry and start offset at which the entry's
\* `before` occurs (overlapping occurrences included) the result holds
\* exactly one Mutation (operator, line, s, s + len(before), before, after),
\* and it holds no other ROR/LCR/NMC/AOR Mutation; "a == b and c == d\n"
\* yields exactly two ROR candidates at distinct ranges and one LCR candidate.
C8_LiteralScanComplete ==
    pc = "generated" =>
        /\ {cands[k] : k \in LiteralIndexes} = LiteralOccurrences(lines)
        /\ \A j, k \in LiteralIndexes : cands[j] = cands[k] => j = k
        /\ lines = <<ScenarioLine>> =>
              /\ Cardinality({k \in LiteralIndexes : cands[k].operator = "ROR"}) = 2
              /\ Cardinality({<<cands[k].col_start, cands[k].col_end>> :
                                 k \in {j \in LiteralIndexes : cands[j].operator = "ROR"}}) = 2
              /\ Cardinality({k \in LiteralIndexes : cands[k].operator = "LCR"}) = 1
              /\ Cardinality(LiteralIndexes) = 3

C8_Witness ==
    /\ pc = "generated"
    /\ \E j, k \in LiteralIndexes :
          /\ cands[j].before = cands[k].before
          /\ cands[j].line_no = cands[k].line_no
          /\ cands[j].col_start < cands[k].col_start
          /\ cands[k].col_start < cands[j].col_end

C8_ScenarioWitness == pc = "generated" /\ lines = <<ScenarioLine>>

\* C9: once apply_mutation(lines, m) has succeeded for a generated m,
\* apply_mutation(mutated, m) raises ValueError, returns nothing and leaves
\* `mutated` as it was.
C9_NoSecondApplication ==
    [][(pc = "applied" /\ pc' = "reapplied") =>
          /\ err' = "ValueError"
          /\ second' = NoResult
          /\ mutated' = mutated]_vars

C9_Witness ==
    /\ pc = "reapplied"
    /\ err = "ValueError"
    /\ Len(mu.after) < Len(mu.before)
    /\ mu.col_end > Len(mutated[mu.line_no])

\* C10: a Mutation whose line_no is outside 1..len(lines) makes
\* apply_mutation fail with an error and return no sequence.
C10_OutOfRangeRejected ==
    (pc = "misapplied" /\ mu.line_no \notin 1..Len(pristine)) =>
        /\ err # "none"
        /\ mutated = NoResult

StartsWith(text, prefix) ==
    Len(prefix) <= Len(text) /\ SubSeq(text, 1, Len(prefix)) = prefix

Contains(text, part) ==
    \E s \in 0..(Len(text) - Len(part)) : SubSeq(text, s + 1, s + Len(part)) = part

\* C6: the text rendered for a generated Mutation's result starts with
\* "--- a/" and the path, contains "+++ b/" and the path, contains an "@@"
\* hunk header and ends with a newline.
C6_DiffShape ==
    pc = "diffed" =>
        /\ StartsWith(diff, <<"-", "-", "-", " ", "a", "/">> \o relpath)
        /\ Contains(diff, <<"+", "+", "+", " ", "b", "/">> \o relpath)
        /\ Contains(diff, <<"@", "@">>)
        /\ diff # <<>>
        /\ diff[Len(diff)] = "\n"

C6_Witness ==
    /\ pc = "diffed"
    /\ Len(pristine) = 2
    /\ mu.line_no = 2
    /\ Contains(relpath, <<"/">>)
    /\ Contains(diff, <<"\n", "@", "@", " ", "-", "1", ",", "2", " ">>)

\* the lines of a text as a patch tool reads them: split at every "\n"
NewlinesOf(text) == {i \in 1..Len(text) : text[i] = "\n"}

NthNewline(text, k) ==
    CHOOSE i \in NewlinesOf(text) :
        Cardinality({j \in NewlinesOf(text) : j < i}) = k - 1

TextLines(text) ==
    LET n    == Cardinality(NewlinesOf(text))
        last == IF n = 0 THEN 0 ELSE NthNewline(text, n)
        full == [k \in 1..n |->
                    LET from == IF k = 1 THEN 0 ELSE NthNewline(text, k - 1)
                        to   == NthNewline(text, k)
                    IN  IF from + 1 > to - 1 THEN <<>>
                        ELSE SubSeq(text, from + 1, to - 1)]
    IN  IF last < Len(text) THEN Append(full, SubSeq(text, last + 1, Len(text)))
        ELSE full

IsHunkHeader(l) == StartsWith(l, <<"@", "@", " ">>)

\* the hunks of a diff's text lines: each header with the lines up to the
\* next header
HunksOf(tl) ==
    LET heads == {h \in 1..Len(tl) : IsHunkHeader(tl[h])}
        next(h) == IF \E g \in heads : g > h
                   THEN CHOOSE g \in heads : g > h /\ \A f \in heads : f > h => g <= f
                   ELSE Len(tl) + 1
        nth(k) == CHOOSE h \in heads : Cardinality({g \in heads : g < h}) = k - 1
    IN  [k \in 1..Cardinality(heads) |->
            [header |-> tl[nth(k)],
             body   |-> IF nth(k) + 1 > next(nth(k)) - 1 THEN <<>>
                        ELSE SubSeq(tl, nth(k) + 1, next(nth(k)) - 1)]]

BodyLineOk(l) == l # <<>> /\ l[1] \in {" ", "-", "+"}

OldLines(body) == SelectSeq(body, LAMBDA l : l # <<>> /\ l[1] \in {" ", "-"})
NewLines(body) == SelectSeq(body, LAMBDA l : l # <<>> /\ l[1] \in {" ", "+"})

\* the header declares `olds` old lines from 0-based index s1 and `news` new
\* lines from 0-based index s2
HeaderDeclares(header, s1, olds, s2, news) ==
    header = HunkHeader(format_range_unified(s1, s1 + olds),
                        format_range_unified(s2, s2 + news), <<>>)

\* 0-based index in the old file at which the hunk starts, -1 when the
\* header does not agree with the hunk's body
HunkStart(h, limit) ==
    LET olds == Len(OldLines(h.body))
        news == Len(NewLines(h.body))
        ok   == {s \in 0..limit : \E s2 \in 0..limit :
                    HeaderDeclares(h.header, s, olds, s2, news)}
    IN  IF ok = {} THEN -1 ELSE CHOOSE s \in ok : TRUE

\* the content line a body line stands for
FileLine(l) == Tail(l) \o <<"\n">>

\* every hunk's body consists of " ", "-" and "+" lines only, in the
\* numbers its header declares, and its old lines are the source's lines
HunkFits(h, src) ==
    LET s    == HunkStart(h, Len(src))
        olds == OldLines(h.body)
    IN  /\ \A k \in 1..Len(h.body) : BodyLineOk(h.body[k])
        /\ s >= 0
        /\ s + Len(olds) <= Len(src)
        /\ \A k \in 1..Len(olds) : FileLine(olds[k]) = src[s + k]

DiffWellFormed(text, src, path) ==
    LET tl == TextLines(text)
        hs == HunksOf(tl)
    IN  /\ Len(tl) >= 3
        /\ tl[1] = <<"-", "-", "-", " ", "a", "/">> \o path
        /\ tl[2] = <<"+", "+", "+", " ", "b", "/">> \o path
        /\ IsHunkHeader(tl[3])
        /\ \A k \in 1..Len(hs) : HunkFits(hs[k], src)

\* the file a patch tool writes: the source's lines outside the hunks, each
\* hunk's new lines inside
RECURSIVE PatchFrom(_, _, _)
PatchFrom(src, hs, pos) ==
    IF hs = <<>> THEN (IF pos + 1 > Len(src) THEN <<>> ELSE SubSeq(src, pos + 1, Len(src)))
    ELSE LET h    == hs[1]
             s    == HunkStart(h, Len(src))
             news == NewLines(h.body)
         IN  (IF pos + 1 > s THEN <<>> ELSE SubSeq(src, pos + 1, s))
             \o [k \in 1..Len(news) |-> FileLine(news[k])]
             \o PatchFrom(src, Tail(hs), s + Len(OldLines(h.body)))

Patched(text, src) == PatchFrom(src, HunksOf(TextLines(text)), 0)

AllTerminated(ls) ==
    \A i \in 1..Len(ls) : ls[i] # <<>> /\ ls[i][Len(ls[i])] = "\n"

\* C7: for lines that keep their terminators, the rendered text is a
\* well-formed unified diff (every hunk body holds exactly the lines its
\* header declares, no blank lines between them) and applying it to the
\* original gives the mutated lines.
C7_PatchRoundTrip ==
    (pc = "diffed" /\ AllTerminated(pristine)) =>
        /\ DiffWellFormed(diff, pristine, relpath)
        /\ Patched(diff, pristine) = mutated

====
